---- MODULE Spec2Model ----
(***************************************************************************)
(* aibridge.LoadBalancedLLM: a wrapper around another LLM that queues the  *)
(* get_completion calls of arbitrary caller threads, hands them to a       *)
(* ThreadPoolExecutor from one dispatcher thread (_queue_loop) under a     *)
(* requests-per-minute limit, and adds the wrapped LLM's token usage to    *)
(* its own counters.                                                       *)
(*                                                                         *)
(* Time.  The code compares times only in  timestamps[0] < now - 60 .      *)
(* The model keeps every stored time t as its age  time.time() - t  in     *)
(* whole seconds, saturated just above the window: the comparison is       *)
(*  age > 60 , and the passing of time (Tick) adds to every age.           *)
(*                                                                         *)
(* Requests.  Caller threads are interchangeable, so the k-th call of      *)
(* get_completion to take self.lock is request k.  The code never looks    *)
(* into a prompt, so the calls pass distinct prompts: request k passes     *)
(* prompt k, and a text delivered to the wrong caller shows.               *)
(***************************************************************************)
EXTENDS Integers, Sequences, FiniteSets, TLC

\* ------------------------------------------------------------- bounds
NumRequests == 3      \* get_completion calls made in a run
MaxRpm == 2           \* max_requests_per_minute is drawn from 1..MaxRpm
MaxConcurrency == 2   \* max_concurrent_requests is drawn from 1..MaxConcurrency
MaxWrap == 2          \* decorators around the provider that the dispatcher wraps

\* ------------------------------------------------------------- program constants
Window == 60          \* seconds, LoadBalancedLLM._queue_loop

Requests == 1..NumRequests
Stale == Window + 1
Ages == 0..Stale
TickSteps == {30}     \* seconds that pass in one Tick: ages are 0, 30, 60 and beyond

VARIABLES
  requests_per_minute,   \* self.requests_per_minute
  concurrency,           \* self.concurrency
  child_has_cost,        \* self._child_has_cost
  llm,                   \* self.llm: the class names of a decorator chain, outermost
                         \* first, the provider last
  identity,              \* what the last identify() call returned ("": no call yet)
  timestamps,            \* self.timestamps: deque of times (ages), left end first
  queue,                 \* self.queue: FIFO of <<request_time (age), request>>
  stop_event,            \* self.stop_event
  lock,                  \* self.lock: the threads inside `with self.lock` (a request
                         \* number is the caller thread of that request)
  caller_request_time,   \* the local request_time of get_completion, while r holds the lock
  work_queue,            \* the executor's queue of submitted tasks not yet started
  executor_shutdown,     \* the executor has been shut down
  loopPc,                \* the dispatcher thread: "top", "admit", "get", "done", "crashed"
  stopPc,                \* the thread calling stop_worker:  "idle", "join", "drain", "returned"
  nextId,                \* number of get_completion calls so far, plus one
  prompt,                \* prompt[r]: the prompt of request r (0: not submitted)
  callerPc,              \* caller of r: "none", "locked", "waiting", "returned", "raised"
  retval,                \* what get_completion gave the caller of r
  event,                 \* event[r]: the request's threading.Event is set
  result_holder,         \* result_holder[r]: <<>> is {}, <<c>> is {"completion": c}
  taskPc,                \* the _process_request task of r
  usage_before,          \* local of the task: <<input, output>>
  used,                  \* local of the task: <<used_input, used_output>>
  tmp,                   \* local of the task: the value read by a += in update_token_counters
  llm_tokens,            \* the wrapped LLM's <<token_counter_input, token_counter_output>>
  token_counter_input,   \* the wrapper's self.token_counter_input
  token_counter_output,  \* the wrapper's self.token_counter_output
  max_per_minute,        \* AnthropicClient: self.anthropic_args['max_per_minute']
  call_timestamps,       \* AnthropicClient: self.call_timestamps (ages), oldest first
  api_calls,             \* history: ages of the client.messages.create calls started
                         \* less than Window seconds ago
  anthropicPc,           \* AnthropicClient.get_completion: "idle" or "loop"
  anthropic_i,           \* AnthropicClient.get_completion: i of its retry loop
  client,                \* the adapter class whose get_completion runs
  max_retries,           \* adapter: self.max_retries
  adapterPc,             \* adapter get_completion: "idle", "loop", "returned", "raised"
  responses,             \* history: what each attempt of the call met, in order
  updates,               \* history: update_token_counters calls made during the call
  adapter_result,        \* what the adapter's get_completion returned
  audit,                 \* history switch: record the admissions
  admissions,            \* history: ages of the executor.submit calls of the last Window seconds
  stop_queued            \* history: the requests still in self.queue that were in it when
                         \* stop_event was set

vars == <<requests_per_minute, concurrency, child_has_cost, llm, identity, lock, caller_request_time,
          timestamps, queue,
          stop_event, work_queue, executor_shutdown, loopPc, stopPc, nextId,
          prompt, callerPc, retval, event, result_holder, taskPc, usage_before,
          used, tmp, llm_tokens, token_counter_input, token_counter_output,
          max_per_minute, call_timestamps, api_calls, anthropicPc, anthropic_i,
          client, max_retries, adapterPc,
          responses, updates, adapter_result, audit, admissions, stop_queued>>

configVars == <<requests_per_minute, concurrency, child_has_cost, audit>>
identVars == <<llm, identity>>
lockVars == <<lock, caller_request_time>>
anthropicVars == <<max_per_minute, call_timestamps, api_calls, anthropicPc, anthropic_i>>
adapterVars == <<client, max_retries, adapterPc, responses, updates, adapter_result>>
clientVars == <<anthropicVars, adapterVars>>
callerVars == <<nextId, prompt, callerPc, retval>>
usageVars == <<usage_before, used, tmp, llm_tokens, token_counter_input, token_counter_output>>
stopVars == <<stop_event, executor_shutdown, stopPc>>

\* ------------------------------------------------------------- helpers
AddAge(a, d) == IF a + d > Window THEN Stale ELSE a + d

AgeSeq(s, d) == [i \in 1..Len(s) |-> AddAge(s[i], d)]

AgeQueue(q, d) == [i \in 1..Len(q) |-> <<AddAge(q[i][1], d), q[i][2]>>]

Recent(s) == SelectSeq(s, LAMBDA a : a <= Window)

\* the wrapped LLM: the text it returns for a prompt, and the usage of one call
Completion(p) == <<"completion", p>>
ProviderError(p) == <<"ProviderError", "prompt", p>>
\* what result_holder["completion"] raises when the key is missing
KeyError == <<"KeyError">>
NoValue == <<>>
UsageDelta == <<1, 2>>

TypeOK ==
  /\ requests_per_minute \in 1..MaxRpm
  /\ concurrency \in 1..MaxConcurrency
  /\ child_has_cost \in BOOLEAN
  /\ timestamps \in Seq(Ages)
  /\ stop_event \in BOOLEAN
  /\ executor_shutdown \in BOOLEAN
  /\ loopPc \in {"top", "admit", "get", "done", "crashed"}
  /\ stopPc \in { "idle", "join", "drain", "returned"}
  /\ nextId \in 1..(NumRequests + 1)
  /\ prompt \in [Requests -> 0..NumRequests]
  /\ callerPc \in [Requests -> {"none", "locked", "waiting", "returned", "raised"}]
  /\ event \in [Requests -> BOOLEAN]
  /\ taskPc \in [Requests -> {"none", "pending", "calling", "usage_after", "in_read",
                              "in_write", "out_read", "out_write", "store", "done",
                              "failed"}]

\* ------------------------------------------------------------- __init__
\* the limits are positive integers (the spec's Configuration); the code takes them as given
Limits ==
  /\ requests_per_minute \in 1..MaxRpm
  /\ concurrency \in 1..MaxConcurrency

\* the LLM classes: the decorators (which wrap another LLM) and the providers
Wrappers == {"LoadBalancedLLM", "LLMLogger"}
Providers == {"DummyLLM", "ExampleMirrorLLM", "OpenAIClient"}

\* the LLM objects that can be passed to __init__
WrappedLLMs ==
  UNION {{w \o <<p>> : w \in [1..n -> Wrappers], p \in Providers} : n \in 0..MaxWrap}

\* self.llm = llm, for the dispatcher's own operation a DummyLLM
WrapsDummy == llm = <<"DummyLLM">>

\* AnthropicClient.__init__ and the adapters' __init__: nothing called yet
ClientsConstructed ==
  /\ call_timestamps = <<>>
  /\ api_calls = <<>>
  /\ anthropicPc = "idle"
  /\ anthropic_i = 0
  /\ adapterPc = "idle"
  /\ responses = <<>>
  /\ updates = 0
  /\ adapter_result = NoValue

\* the clients' settings while only the dispatcher is exercised
ClientsUnused ==
  /\ max_per_minute = 1
  /\ client = "OpenAIClient"
  /\ max_retries = 0

Constructed ==
  /\ ClientsConstructed
  /\ identity = ""
  /\ lock = {}
  /\ caller_request_time = [r \in Requests |-> 0]
  /\ timestamps = <<>>
  /\ queue = <<>>
  /\ stop_event = FALSE
  /\ work_queue = <<>>
  /\ executor_shutdown = FALSE
  /\ loopPc = "top"
  /\ stopPc = "idle"
  /\ nextId = 1
  /\ prompt = [r \in Requests |-> 0]
  /\ callerPc = [r \in Requests |-> "none"]
  /\ retval = [r \in Requests |-> NoValue]
  /\ event = [r \in Requests |-> FALSE]
  /\ result_holder = [r \in Requests |-> <<>>]
  /\ taskPc = [r \in Requests |-> "none"]
  /\ usage_before = [r \in Requests |-> <<0, 0>>]
  /\ used = [r \in Requests |-> <<0, 0>>]
  /\ tmp = [r \in Requests |-> 0]
  /\ llm_tokens = <<0, 0>>
  /\ token_counter_input = 0
  /\ token_counter_output = 0
  /\ admissions = <<>>
  /\ stop_queued = {}

Init ==
  /\ Limits
  /\ WrapsDummy
  /\ ClientsUnused
  /\ child_has_cost \in BOOLEAN
  /\ audit = FALSE
  /\ Constructed

\* ------------------------------------------------------------- time
Tick ==
  \E d \in TickSteps :
    /\ timestamps' = AgeSeq(timestamps, d)
    /\ queue' = AgeQueue(queue, d)
    /\ admissions' = Recent(AgeSeq(admissions, d))
    /\ caller_request_time' = [r \in Requests |-> IF r \in lock
                                                      THEN AddAge(caller_request_time[r], d)
                                                      ELSE caller_request_time[r]]
    /\ UNCHANGED <<configVars, identVars, clientVars, lock, callerVars, usageVars, stopVars, stop_queued, work_queue, loopPc,
                   event, result_holder, taskPc>>

\* ------------------------------------------------------------- get_completion
\* with self.lock: request_time = time.time(); self.queue.put(...)
Submit(p) ==
  /\ nextId <= NumRequests
  /\ queue' = Append(queue, <<0, nextId>>)
  /\ prompt' = [prompt EXCEPT ![nextId] = p]
  /\ callerPc' = [callerPc EXCEPT ![nextId] = "waiting"]
  /\ nextId' = nextId + 1
  /\ UNCHANGED <<configVars, identVars, lockVars, clientVars, usageVars, stopVars, stop_queued, timestamps, work_queue, loopPc,
                 retval, event, result_holder, taskPc, admissions>>

\* get_completion step by step.  The thread that holds self.lock is named by its
\* request number; the dispatcher thread is thread 0.
DispatcherThread == 0

\* a get_completion without the lock around request_time and put
MayEnterUnlocked == TRUE

\* with self.lock: the lock is free
MayEnter == lock = {}

\* with self.lock: request_time = time.time()
Enter ==
  /\ nextId <= NumRequests
  /\ MayEnter
  /\ lock' = lock \cup {nextId}
  /\ caller_request_time' = [caller_request_time EXCEPT ![nextId] = 0]
  /\ prompt' = [prompt EXCEPT ![nextId] = nextId]
  /\ callerPc' = [callerPc EXCEPT ![nextId] = "locked"]
  /\ nextId' = nextId + 1
  /\ UNCHANGED <<configVars, identVars, clientVars, usageVars, stopVars, stop_queued, timestamps, queue,
                 work_queue, loopPc, retval, event, result_holder, taskPc, admissions>>

\* self.queue.put((request_time, prompt, event, result_holder)); the lock is released
PutRelease(r) ==
  /\ r \in lock
  /\ callerPc[r] = "locked"
  /\ queue' = Append(queue, <<caller_request_time[r], r>>)
  /\ lock' = lock \ {r}
  /\ caller_request_time' = [caller_request_time EXCEPT ![r] = 0]
  /\ callerPc' = [callerPc EXCEPT ![r] = "waiting"]
  /\ UNCHANGED <<configVars, identVars, clientVars, usageVars, stopVars, stop_queued, timestamps,
                 work_queue, loopPc, nextId, prompt, retval, event, result_holder, taskPc,
                 admissions>>

\* result_holder["completion"]: the stored value, or KeyError
Lookup(holder) == IF holder # <<>> THEN <<"returned", holder[1]>> ELSE <<"raised", KeyError>>

\* event.wait() returns; return result_holder["completion"]
CallerWake(r) ==
  /\ callerPc[r] = "waiting"
  /\ event[r]
  /\ callerPc' = [callerPc EXCEPT ![r] = Lookup(result_holder[r])[1]]
  /\ retval' = [retval EXCEPT ![r] = Lookup(result_holder[r])[2]]
  /\ UNCHANGED <<configVars, identVars, lockVars, clientVars, usageVars, stopVars, stop_queued, timestamps, queue, work_queue, loopPc,
                 nextId, prompt, event, result_holder, taskPc, admissions>>

\* ------------------------------------------------------------- _queue_loop
\* a loop that drops every timestamp, whatever its age
EvictAll(ts) == <<>>

\* a loop that never evicts
EvictNever(ts) == ts

\* while self.timestamps and self.timestamps[0] < now - 60: self.timestamps.popleft()
RECURSIVE EvictStale(_)
EvictStale(ts) ==
  IF ts # <<>> /\ Head(ts) > Window THEN EvictStale(Tail(ts)) ELSE ts

\* a test without `not self.queue.empty()`
HasCapacityIgnoringQueue(q, ts) == Len(ts) < requests_per_minute

\* a test that also admits at exactly the limit
HasCapacityInclusive(q, ts) == q # <<>> /\ Len(ts) <= requests_per_minute

\* not self.queue.empty() and len(self.timestamps) < self.requests_per_minute
HasCapacity(q, ts) == q # <<>> /\ Len(ts) < requests_per_minute

\* a LIFO queue: get() takes the newest item
ServedLast(q) == Len(q)

\* queue.Queue is FIFO: get() takes the item at the left end
Served(q) == 1

\* self.queue.get()
QueueGet(q) == q[Served(q)]

QueueRest(q) == [i \in 1..(Len(q) - 1) |-> IF i < Served(q) THEN q[i] ELSE q[i + 1]]

\* self.timestamps.append(request_time)
RecordedTimestamp(request_time) == request_time

\* while not self.stop_event.is_set(): now = time.time(); evict
LoopTop ==
  /\ loopPc = "top"
  /\ IF stop_event
       THEN loopPc' = "done" /\ UNCHANGED timestamps
       ELSE loopPc' = "admit" /\ timestamps' = EvictStale(timestamps)
  /\ UNCHANGED <<configVars, identVars, lockVars, clientVars, callerVars, usageVars, stopVars, stop_queued, queue, work_queue,
                 event, result_holder, taskPc, admissions>>

\* the if of the loop body, then time.sleep(0.05)
LoopAdmit ==
  /\ loopPc = "admit"
  /\ IF HasCapacity(queue, timestamps)
       THEN /\ queue' = QueueRest(queue)
            /\ timestamps' = Append(timestamps, RecordedTimestamp(QueueGet(queue)[1]))
            /\ IF executor_shutdown
                 THEN \* executor.submit raises RuntimeError: the thread ends
                      /\ loopPc' = "crashed"
                      /\ UNCHANGED <<work_queue, taskPc, admissions>>
                 ELSE /\ loopPc' = "top"
                      /\ work_queue' = Append(work_queue, QueueGet(queue)[2])
                      /\ taskPc' = [taskPc EXCEPT ![QueueGet(queue)[2]] = "pending"]
                      /\ admissions' = IF audit THEN Append(admissions, 0) ELSE admissions
       ELSE /\ loopPc' = "top"
            /\ UNCHANGED <<queue, timestamps, work_queue, taskPc, admissions>>
  /\ stop_queued' = IF HasCapacity(queue, timestamps)
                      THEN stop_queued \ {QueueGet(queue)[2]}
                      ELSE stop_queued
  /\ UNCHANGED <<configVars, identVars, lockVars, clientVars, callerVars, usageVars, stopVars, event, result_holder>>

\* The loop body step by step: the test of the if, and then the statements under it.
\* if not self.queue.empty() and len(self.timestamps) < self.requests_per_minute
LoopCheck ==
  /\ loopPc = "admit"
  /\ loopPc' = IF HasCapacity(queue, timestamps) THEN "get" ELSE "top"
  /\ UNCHANGED <<configVars, identVars, lockVars, clientVars, callerVars, usageVars, stopVars, stop_queued,
                 timestamps, queue, work_queue, event, result_holder, taskPc, admissions>>

\* self.queue.get() blocks while the queue is empty; then append, submit, sleep
LoopGet ==
  /\ loopPc = "get"
  /\ queue # <<>>
  /\ queue' = QueueRest(queue)
  /\ timestamps' = Append(timestamps, RecordedTimestamp(QueueGet(queue)[1]))
  /\ stop_queued' = stop_queued \ {QueueGet(queue)[2]}
  /\ IF executor_shutdown
       THEN /\ loopPc' = "crashed"
            /\ UNCHANGED <<work_queue, taskPc, admissions>>
       ELSE /\ loopPc' = "top"
            /\ work_queue' = Append(work_queue, QueueGet(queue)[2])
            /\ taskPc' = [taskPc EXCEPT ![QueueGet(queue)[2]] = "pending"]
            /\ admissions' = IF audit THEN Append(admissions, 0) ELSE admissions
  /\ UNCHANGED <<configVars, identVars, lockVars, clientVars, callerVars, usageVars, stopVars, event,
                 result_holder>>

\* ------------------------------------------------------------- ThreadPoolExecutor
\* a pool whose worker thread dies with the task that raised
RunningHeldByFailed == {r \in Requests : taskPc[r] \notin {"none", "pending", "done"}}

\* the tasks that occupy a worker thread
Running == {r \in Requests : taskPc[r] \notin {"none", "pending", "done", "failed"}}

Outstanding == {r \in Requests : taskPc[r] \notin {"none", "done", "failed"}}

\* the tasks inside self.llm.get_completion
Executing == {r \in Requests : taskPc[r] = "calling"}

\* an executor that starts a thread for every task
HasFreeWorkerUnbounded == TRUE

\* ThreadPoolExecutor(max_workers=self.concurrency): a thread is free or can be started
HasFreeWorker == Cardinality(Running) < concurrency

\* a wrapper that never measures usage
TracksUsageNever == FALSE

\* a wrapper that measures the usage of every wrapped LLM
TracksUsageAlways == TRUE

\* if self._child_has_cost:
TracksUsage == child_has_cost

\* a worker thread takes the next task; _process_request up to the wrapped call
WorkerStart ==
  /\ work_queue # <<>>
  /\ HasFreeWorker
  /\ LET r == Head(work_queue) IN
       /\ work_queue' = Tail(work_queue)
       /\ taskPc' = [taskPc EXCEPT ![r] = "calling"]
       /\ usage_before' = IF TracksUsage
                            THEN [usage_before EXCEPT ![r] = llm_tokens]
                            ELSE usage_before
  /\ UNCHANGED <<configVars, identVars, lockVars, clientVars, callerVars, stopVars, stop_queued, timestamps, queue, loopPc, event,
                 result_holder, used, tmp, llm_tokens, token_counter_input,
                 token_counter_output, admissions>>

\* ------------------------------------------------------------- _process_request
\* self.llm.get_completion(prompt) returns: the wrapped LLM has counted its usage
\* (with or without a cost structure: LMStudioClient counts tokens and has none)
ProviderReturn(r) ==
  /\ taskPc[r] = "calling"
  /\ llm_tokens' = <<llm_tokens[1] + UsageDelta[1], llm_tokens[2] + UsageDelta[2]>>
  /\ taskPc' = [taskPc EXCEPT ![r] = IF TracksUsage THEN "usage_after" ELSE "store"]
  /\ UNCHANGED <<configVars, identVars, lockVars, clientVars, callerVars, stopVars, stop_queued, timestamps, queue, work_queue, loopPc,
                 event, result_holder, usage_before, used, tmp, token_counter_input,
                 token_counter_output, admissions>>

\* a failure that wakes every caller (one event shared by the requests)
ProviderRaiseBroadcast(r) ==
  /\ taskPc[r] = "calling"
  /\ taskPc' = [taskPc EXCEPT ![r] = "failed"]
  /\ event' = [x \in Requests |-> TRUE]
  /\ usage_before' = [usage_before EXCEPT ![r] = <<0, 0>>]
  /\ UNCHANGED <<configVars, identVars, lockVars, clientVars, callerVars, stopVars, stop_queued, timestamps, queue,
                 work_queue, loopPc, result_holder, used, tmp, llm_tokens,
                 token_counter_input, token_counter_output, admissions>>

\* self.llm.get_completion(prompt) raises: finally: event.set(), the task ends
ProviderRaise(r) ==
  /\ taskPc[r] = "calling"
  /\ taskPc' = [taskPc EXCEPT ![r] = "failed"]
  /\ event' = [event EXCEPT ![r] = TRUE]
  /\ usage_before' = [usage_before EXCEPT ![r] = <<0, 0>>]
  /\ UNCHANGED <<configVars, identVars, lockVars, clientVars, callerVars, stopVars, stop_queued, timestamps, queue, work_queue, loopPc,
                 result_holder, used, tmp, llm_tokens, token_counter_input,
                 token_counter_output, admissions>>

\* a delta that forgets to subtract
UsedTokensAbsolute(usage_after, before) == usage_after

\* used_input = usage_after["input"] - usage_before["input"], and used_output
UsedTokens(usage_after, before) ==
  <<usage_after[1] - before[1], usage_after[2] - before[2]>>

\* usage_after = self.llm.get_token_counter(); used_* = after - before
UsageAfter(r) ==
  /\ taskPc[r] = "usage_after"
  /\ used' = [used EXCEPT ![r] = UsedTokens(llm_tokens, usage_before[r])]
  /\ usage_before' = [usage_before EXCEPT ![r] = <<0, 0>>]
  /\ taskPc' = [taskPc EXCEPT ![r] = "in_read"]
  /\ UNCHANGED <<configVars, identVars, lockVars, clientVars, callerVars, stopVars, stop_queued, timestamps, queue, work_queue, loopPc,
                 event, result_holder, tmp, llm_tokens, token_counter_input,
                 token_counter_output, admissions>>

\* self.token_counter_input += input_tokens: the read
InputRead(r) ==
  /\ taskPc[r] = "in_read"
  /\ tmp' = [tmp EXCEPT ![r] = token_counter_input]
  /\ taskPc' = [taskPc EXCEPT ![r] = "in_write"]
  /\ UNCHANGED <<configVars, identVars, lockVars, clientVars, callerVars, stopVars, stop_queued, timestamps, queue, work_queue, loopPc,
                 event, result_holder, usage_before, used, llm_tokens,
                 token_counter_input, token_counter_output, admissions>>

\* self.token_counter_input += input_tokens: the write
InputWrite(r) ==
  /\ taskPc[r] = "in_write"
  /\ token_counter_input' = tmp[r] + used[r][1]
  /\ tmp' = [tmp EXCEPT ![r] = 0]
  /\ taskPc' = [taskPc EXCEPT ![r] = "out_read"]
  /\ UNCHANGED <<configVars, identVars, lockVars, clientVars, callerVars, stopVars, stop_queued, timestamps, queue, work_queue, loopPc,
                 event, result_holder, usage_before, used, llm_tokens,
                 token_counter_output, admissions>>

\* self.token_counter_output += output_tokens: the read
OutputRead(r) ==
  /\ taskPc[r] = "out_read"
  /\ tmp' = [tmp EXCEPT ![r] = token_counter_output]
  /\ taskPc' = [taskPc EXCEPT ![r] = "out_write"]
  /\ UNCHANGED <<configVars, identVars, lockVars, clientVars, callerVars, stopVars, stop_queued, timestamps, queue, work_queue, loopPc,
                 event, result_holder, usage_before, used, llm_tokens,
                 token_counter_input, token_counter_output, admissions>>

\* self.token_counter_output += output_tokens: the write
OutputWrite(r) ==
  /\ taskPc[r] = "out_write"
  /\ token_counter_output' = tmp[r] + used[r][2]
  /\ tmp' = [tmp EXCEPT ![r] = 0]
  /\ used' = [used EXCEPT ![r] = <<0, 0>>]
  /\ taskPc' = [taskPc EXCEPT ![r] = "store"]
  /\ UNCHANGED <<configVars, identVars, lockVars, clientVars, callerVars, stopVars, stop_queued, timestamps, queue, work_queue, loopPc,
                 event, result_holder, usage_before, llm_tokens, token_counter_input,
                 admissions>>

\* one dict shared by all requests instead of one per call
StoreResultShared(holders, r, completion) == [x \in DOMAIN holders |-> <<completion>>]

\* result_holder["completion"] = completion
StoreResult(holders, r, completion) == [holders EXCEPT ![r] = <<completion>>]

\* result_holder["completion"] = completion; finally: event.set()
StoreAndSignal(r) ==
  /\ taskPc[r] = "store"
  /\ result_holder' = StoreResult(result_holder, r, Completion(prompt[r]))
  /\ event' = [event EXCEPT ![r] = TRUE]
  /\ taskPc' = [taskPc EXCEPT ![r] = "done"]
  /\ UNCHANGED <<configVars, identVars, lockVars, clientVars, callerVars, usageVars, stopVars, stop_queued, timestamps, queue,
                 work_queue, loopPc, admissions>>

\* ------------------------------------------------------------- identify
\* self.model_name of an OpenAIClient
ModelName == "gpt-4.1"

\* LLM.identify: the class name; OpenAIClient.identify (without reasoning_effort):
\* the class name and the model name
ProviderIdentify(p) == IF p = "OpenAIClient" THEN p \o "(" \o ModelName \o ")" ELSE p

\* a wrapper that hides itself, as LLMLogger does
IdentifyTransparent(inner) == inner

\* LoadBalancedLLM.identify: f"LoadBalancedLLM({self.llm.identify()})"
LoadBalancedIdentify(inner) == "LoadBalancedLLM(" \o inner \o ")"

\* llm.identify() of a decorator chain; LLMLogger.identify returns self.llm.identify()
RECURSIVE IdentifyOf(_)
IdentifyOf(chain) ==
  IF Len(chain) = 1 THEN ProviderIdentify(chain[1])
  ELSE IF Head(chain) = "LoadBalancedLLM" THEN LoadBalancedIdentify(IdentifyOf(Tail(chain)))
  ELSE IdentifyOf(Tail(chain))

\* identify() of the dispatcher
Identify ==
  /\ identity' = LoadBalancedIdentify(IdentifyOf(llm))
  /\ UNCHANGED <<configVars, llm, lockVars, clientVars, callerVars, usageVars, stopVars, stop_queued, timestamps,
                 queue, work_queue, loopPc, event, result_holder, taskPc, admissions>>

\* ------------------------------------------------------------- get_cost
\* the wrapped LLM's <<cost_per_1M_tokens_input, cost_per_1M_tokens_output>>, in dollars
ChildCost == <<3, 15>>

\* LLM.get_cost of the wrapper, in millionths of a dollar: its cost fields are the
\* wrapped LLM's when that has both, and None otherwise
GetCost ==
  IF child_has_cost
    THEN token_counter_input * ChildCost[1] + token_counter_output * ChildCost[2]
    ELSE 0

\* ------------------------------------------------------------- stop_worker
\* self.stop_event.set()
StopSet ==
  /\ stopPc = "idle"
  /\ stop_event' = TRUE
  /\ stopPc' = "join"
  /\ stop_queued' = {queue[i][2] : i \in 1..Len(queue)}
  /\ UNCHANGED <<configVars, identVars, lockVars, clientVars, callerVars, usageVars, timestamps, queue, work_queue,
                 executor_shutdown, loopPc, event, result_holder, taskPc, admissions>>

\* a stop_worker that does not wait for the dispatcher thread
JoinNoWait == TRUE

\* self.worker_thread.join() returns when the dispatcher thread has ended
JoinReturns == loopPc \in {"done", "crashed"}

\* self.worker_thread.join(); self.executor.shutdown(wait=True) begins: no more submits
StopJoin ==
  /\ stopPc = "join"
  /\ JoinReturns
  /\ executor_shutdown' = TRUE
  /\ stopPc' = "drain"
  /\ UNCHANGED <<configVars, identVars, lockVars, clientVars, callerVars, usageVars, timestamps, queue, work_queue,
                 stop_event, stop_queued, loopPc, event, result_holder, taskPc,
                 admissions>>

\* a shutdown that waits for the running tasks only and leaves the pending ones
ShutdownWaitsRunningOnly == Running = {}

\* shutdown(wait=False) returns at once
ShutdownNoWait == TRUE

\* shutdown(wait=True) joins the worker threads, which first empty the work queue
ShutdownMayReturn == Outstanding = {}

\* self.executor.shutdown(wait=True) returns, and stop_worker with it
StopReturn ==
  /\ stopPc = "drain"
  /\ ShutdownMayReturn
  /\ stopPc' = "returned"
  /\ UNCHANGED <<configVars, identVars, lockVars, clientVars, callerVars, usageVars, timestamps, queue, work_queue,
                 stop_event, executor_shutdown, stop_queued, loopPc, event,
                 result_holder, taskPc, admissions>>

\* ------------------------------------------------------------- specification
Callers == Submit(nextId)

CallerReturns == \E r \in Requests : CallerWake(r)

Provider == \E r \in Requests : ProviderReturn(r) \/ ProviderRaise(r)

Accounting ==
  \E r \in Requests : UsageAfter(r) \/ InputRead(r) \/ InputWrite(r) \/ OutputRead(r)
                        \/ OutputWrite(r)

Signal == \E r \in Requests : StoreAndSignal(r)

Next ==
  \/ Tick
  \/ Callers
  \/ CallerReturns
  \/ LoopTop
  \/ LoopAdmit
  \/ WorkerStart
  \/ Provider
  \/ Accounting
  \/ Signal
  \/ StopSet
  \/ StopJoin
  \/ StopReturn

Spec == Init /\ [][Next]_vars

\* The wrapper while it runs (stop_worker is not called) over a wrapped LLM without
\* cost fields, with a dispatcher thread that is never late and with the admissions
\* of the last Window seconds recorded.
InitRate ==
  /\ Limits
  /\ WrapsDummy
  /\ ClientsUnused
  /\ child_has_cost = FALSE
  /\ audit = TRUE
  /\ Constructed

\* The loop polls every 0.05 s, far more often than time is stepped here: time
\* passes while the dispatcher thread sleeps with nothing to admit.
PolledTick ==
  /\ loopPc = "top"
  /\ ~HasCapacity(queue, EvictStale(timestamps))
  /\ Tick

NextRate ==
  \/ PolledTick
  \/ Callers
  \/ CallerReturns
  \/ LoopTop
  \/ LoopAdmit
  \/ WorkerStart
  \/ Provider
  \/ Signal

SpecRate == InitRate /\ [][NextRate]_vars

\* The wrapper over a wrapped LLM without cost fields (cost_per_1M_tokens_* is None):
\* _process_request skips the usage accounting, whose steps are never enabled.
InitNoCost ==
  /\ Limits
  /\ WrapsDummy
  /\ ClientsUnused
  /\ child_has_cost = FALSE
  /\ audit = FALSE
  /\ Constructed

NextNoCost ==
  \/ Tick
  \/ Callers
  \/ CallerReturns
  \/ LoopTop
  \/ LoopAdmit
  \/ WorkerStart
  \/ Provider
  \/ Signal
  \/ StopSet
  \/ StopJoin
  \/ StopReturn

SpecNoCost == InitNoCost /\ [][NextNoCost]_vars

\* Usage accounting: the requests of one minute (no time passes, stop_worker is not
\* called) over a wrapped LLM with or without cost fields.
NextUsage ==
  \/ Callers
  \/ CallerReturns
  \/ LoopTop
  \/ LoopAdmit
  \/ WorkerStart
  \/ Provider
  \/ Accounting
  \/ Signal

SpecUsage == Init /\ [][NextUsage]_vars

\* identify() called at any moment of a running dispatcher, around any LLM object
InitIdentify ==
  /\ Limits
  /\ llm \in WrappedLLMs
  /\ ClientsUnused
  /\ child_has_cost = FALSE
  /\ audit = FALSE
  /\ Constructed

NextIdentify ==
  \/ Identify
  \/ Callers
  \/ LoopTop
  \/ LoopAdmit
  \/ WorkerStart

SpecIdentify == InitIdentify /\ [][NextIdentify]_vars

\* The caller threads and the dispatcher thread statement by statement: the lock of
\* get_completion, and the test and the get() of the loop, are separate steps.
PutReleases == \E r \in Requests : PutRelease(r)

NextLock ==
  \/ Tick
  \/ Enter
  \/ PutReleases
  \/ LoopTop
  \/ LoopCheck
  \/ LoopGet

SpecLock == InitNoCost /\ [][NextLock]_vars

\* A burst: every get_completion call is made at t = 0, before any time passes, the
\* dispatcher thread is never late, and the wrapped LLM always returns.
BurstTick ==
  /\ nextId > NumRequests
  /\ PolledTick

ProviderReturns == \E r \in Requests : ProviderReturn(r)

NextBurst ==
  \/ BurstTick
  \/ Callers
  \/ CallerReturns
  \/ LoopTop
  \/ LoopAdmit
  \/ WorkerStart
  \/ ProviderReturns
  \/ Signal

SpecBurst == InitNoCost /\ [][NextBurst]_vars

\* __init__ with limits that are not checked: zero is passed like any other value.
AnyLimits ==
  /\ requests_per_minute \in 0..MaxRpm
  /\ concurrency \in 0..MaxConcurrency

\* ThreadPoolExecutor(max_workers=self.concurrency) raises ValueError when
\* max_workers <= 0: __init__ ends there, no object and no dispatcher thread exist
ConstructionRaises == concurrency <= 0

InitConfig ==
  /\ AnyLimits
  /\ WrapsDummy
  /\ ClientsUnused
  /\ child_has_cost = FALSE
  /\ audit = FALSE
  /\ Constructed

\* an operation of an object that __init__ has returned
Operating(A) == ~ConstructionRaises /\ A

NextConfig ==
  \/ Operating(Tick)
  \/ Operating(Callers)
  \/ Operating(CallerReturns)
  \/ Operating(LoopTop)
  \/ Operating(LoopAdmit)
  \/ Operating(WorkerStart)
  \/ Operating(Provider)
  \/ Operating(Signal)

SpecConfig == InitConfig /\ [][NextConfig]_vars

\* Normal operation, over a wrapped LLM without cost fields: stop_worker is not
\* called, time advances, every thread is scheduled again and again, and every call
\* of the wrapped LLM returns or raises.
NextRunning ==
  \/ Tick
  \/ Callers
  \/ CallerReturns
  \/ LoopTop
  \/ LoopAdmit
  \/ WorkerStart
  \/ Provider
  \/ Signal

Fairness ==
  /\ WF_vars(Tick)
  /\ WF_vars(LoopTop \/ LoopAdmit)
  /\ WF_vars(WorkerStart)
  /\ \A r \in Requests :
       /\ WF_vars(ProviderReturn(r) \/ ProviderRaise(r) \/ StoreAndSignal(r))
       /\ WF_vars(CallerWake(r))

FairSpec == InitNoCost /\ [][NextRunning]_vars /\ Fairness

\* stop_worker on a dispatcher whose threads are all scheduled again and again,
\* over a wrapped LLM whose calls may never return: nothing is assumed of
\* ProviderReturn and ProviderRaise.
FairnessStopping ==
  /\ WF_vars(Tick)
  /\ WF_vars(LoopTop \/ LoopAdmit)
  /\ WF_vars(WorkerStart)
  /\ WF_vars(StopJoin \/ StopReturn)
  /\ \A r \in Requests :
       /\ WF_vars(StoreAndSignal(r))
       /\ WF_vars(CallerWake(r))

FairStopSpec == InitNoCost /\ [][NextNoCost]_vars /\ FairnessStopping

\* ------------------------------------------------------------- claims

\* C1: in every 60-second window the dispatcher loop hands at most
\* max_requests_per_minute requests to the worker pool.  (admissions holds the
\* admissions of the 60 seconds that end now.)
RateLimitRespected == Len(admissions) <= requests_per_minute

\* C2: at every instant at most max_concurrent_requests provider calls
\* (llm.get_completion inside _process_request) are executing.
ConcurrencyRespected == Cardinality(Executing) <= concurrency

\* the pool is full while a submitted task waits in the executor
PoolSaturated == Cardinality(Executing) = concurrency /\ work_queue # <<>>

\* C3: under normal operation every get_completion call returns or raises.
EveryCallResolves ==
  \A r \in Requests : (callerPc[r] = "waiting") ~> (callerPc[r] \in {"returned", "raised"})

\* under a limit of one request per minute the first call has raised and the
\* second, which had to wait for the window to slide, has returned
ResolvedAfterRateWait ==
  requests_per_minute = 1 /\ callerPc[1] = "raised" /\ callerPc[2] = "returned"

\* C4: once all submitted requests have completed against a cost-tracking LLM that
\* adds UsageDelta per call, the wrapper's totals are the number of completed
\* calls times UsageDelta.
Completed == Cardinality({r \in Requests : taskPc[r] = "done"})

AllCompleted ==
  /\ queue = <<>>
  /\ \A r \in Requests : callerPc[r] # "none" => taskPc[r] = "done"

UsageTotalsExact ==
  (child_has_cost /\ concurrency >= 2 /\ AllCompleted)
    => /\ token_counter_input = Completed * UsageDelta[1]
       /\ token_counter_output = Completed * UsageDelta[2]

\* C5: when the wrapped get_completion raised for a request, the caller's
\* get_completion raises that provider error.
ProviderErrorPropagated ==
  \A r \in Requests :
    (taskPc[r] = "failed" /\ callerPc[r] # "waiting")
      => (callerPc[r] = "raised" /\ retval[r] = ProviderError(prompt[r]))

\* C6: whichever calls of the wrapped LLM raise, every caller is unblocked with the
\* outcome of its own request: KeyError if its own provider call raised, and the
\* completion of its own prompt otherwise.
FailureIsolated ==
  \A r \in Requests :
    (callerPc[r] = "waiting")
      ~> \/ taskPc[r] = "failed" /\ callerPc[r] = "raised"
         \/ /\ taskPc[r] = "done"
            /\ callerPc[r] = "returned"
            /\ retval[r] = Completion(prompt[r])

\* one request has failed and its caller has raised; another caller has its text
FailedBesideReturned ==
  \E r1, r2 \in Requests :
    /\ taskPc[r1] = "failed"
    /\ callerPc[r1] = "raised"
    /\ callerPc[r2] = "returned"

\* C7: what a get_completion(prompt) call returns is the wrapped LLM's completion
\* of that call's own prompt, and no result holder ever holds another text.
ResultToOwnCaller ==
  \A r \in Requests :
    /\ callerPc[r] = "returned" => retval[r] = Completion(prompt[r])
    /\ result_holder[r] \in {<<>>, <<Completion(prompt[r])>>}

\* a later request has returned while an earlier one is still in its provider call
ReturnedOutOfOrder ==
  \E r1, r2 \in Requests :
    r1 < r2 /\ taskPc[r1] = "calling" /\ callerPc[r2] = "returned"

\* C8: requests are handed to the worker pool in the order get_completion enqueued
\* them (request numbers are enqueue order): no request is admitted while an
\* earlier one is still in the queue.
Admitted(r) == taskPc[r] # "none"

AdmissionFIFO ==
  \A r1, r2 \in Requests : (r1 < r2 /\ Admitted(r2)) => Admitted(r1)

\* the rate window is full, a request has been admitted, and two more have been
\* waiting in the queue
QueuedBehindRateLimit ==
  /\ Admitted(1)
  /\ Len(timestamps) = requests_per_minute
  /\ Len(queue) >= 2
  /\ queue[1][1] > 0

\* C9: after stop_worker, every request that was in the queue has completed or has
\* been reported to its caller: its event is set, so that its caller is not blocked.
QueuedResolvedAtShutdown ==
  stopPc = "returned" => \A r \in stop_queued : event[r]

\* C10: when stop_worker returns, no _process_request task is pending or running.
StopReturnsDrained == stopPc = "returned" => Outstanding = {}

\* shutdown(wait=True) is waiting while tasks are pending or running
DrainingWithInflight == stopPc = "drain" /\ Outstanding # {}

\* C11: a dispatcher constructed with max_requests_per_minute <= 0 or with
\* max_concurrent_requests <= 0 never runs: it accepts no get_completion call.
NonPositiveLimitRejected ==
  (requests_per_minute <= 0 \/ concurrency <= 0) => \A r \in Requests : callerPc[r] = "none"

\* C12: of a burst of more than max_requests_per_minute prompts submitted at t = 0
\* (each request's age in the queue is then the time since t = 0), the first
\* max_requests_per_minute requests in queue order are admitted within the first 60
\* seconds, and no later request is admitted before t = 60 s.
BurstAdmission ==
  [][\A r \in Requests :
       (~Admitted(r) /\ Admitted(r)')
         => IF r <= requests_per_minute
              THEN QueueGet(queue)[1] <= Window
              ELSE QueueGet(queue)[1] >= Window]_vars

\* the first request beyond the limit has been admitted, with a request time that
\* had left the window
BurstTailAdmitted ==
  /\ requests_per_minute < NumRequests
  /\ Admitted(requests_per_minute + 1)
  /\ timestamps # <<>>
  /\ timestamps[Len(timestamps)] = Stale

\* C13: over a wrapped LLM whose cost fields are None the wrapper does no delta
\* accounting: no task ever measures usage, the wrapper's token totals stay zero,
\* get_cost is 0, and a caller's call fails only when its provider call raised.
AccountingPcs == {"usage_after", "in_read", "in_write", "out_read", "out_write"}

NoCostNoAccounting ==
  ~child_has_cost
    => /\ token_counter_input = 0
       /\ token_counter_output = 0
       /\ GetCost = 0
       /\ \A r \in Requests :
            /\ taskPc[r] \notin AccountingPcs
            /\ callerPc[r] = "raised" => taskPc[r] = "failed"

\* the wrapped LLM has no cost fields but has counted tokens, and a caller has its text
UncostedUsageIgnored ==
  /\ ~child_has_cost
  /\ llm_tokens # <<0, 0>>
  /\ \E r \in Requests : callerPc[r] = "returned"

\* C14: the wrapper's token totals never decrease: no step makes
\* token_counter_input or token_counter_output smaller than it was.
UsageTotalsMonotonic ==
  [][/\ token_counter_input' >= token_counter_input
     /\ token_counter_output' >= token_counter_output]_vars

\* C15: identify() of the dispatcher returns "LoadBalancedLLM(<inner>)", where
\* <inner> is what identify() of the wrapped LLM returns, so that the wrapper's name
\* and the inner identity can be read back from it; the call changes nothing of the
\* dispatcher's state.
WrapperPrefix == "LoadBalancedLLM("

IdentityComposed ==
  identity # ""
    => /\ Len(identity) = Len(WrapperPrefix) + Len(IdentifyOf(llm)) + 1
       /\ SubSeq(identity, 1, Len(WrapperPrefix)) = WrapperPrefix
       /\ SubSeq(identity, Len(WrapperPrefix) + 1, Len(identity) - 1) = IdentifyOf(llm)
       /\ SubSeq(identity, Len(identity), Len(identity)) = ")"

IdentifyIsPure ==
  [][identity' # identity
       => UNCHANGED <<configVars, llm, lockVars, clientVars, callerVars, usageVars, stopVars, stop_queued,
                      timestamps, queue, work_queue, loopPc, event, result_holder,
                      taskPc, admissions>>]_vars

OutcomeWrittenBeforeSignal ==
  \A r \in Requests : event[r] => result_holder[r] # <<>>

\* C17: an admission records the current time in the rate window (age 0), so that
\* right after it every stored timestamp is at most 60 seconds old; a refused
\* admission records nothing.
AdmissionRecordsNow ==
  [][(loopPc = "admit" /\ loopPc' # "admit")
       => IF HasCapacity(queue, timestamps)
            THEN /\ timestamps'[Len(timestamps')] = 0
                 /\ \A i \in 1..Len(timestamps') : timestamps'[i] <= Window
            ELSE timestamps' = timestamps]_vars

\* C18: the rate window never holds more than max_requests_per_minute timestamps.
RateWindowBounded == Len(timestamps) <= requests_per_minute

\* the dispatcher is at its admission test with a request queued and the window
\* exactly at the limit
RefusingAtLimit ==
  /\ loopPc = "admit"
  /\ queue # <<>>
  /\ Len(timestamps) = requests_per_minute

\* C19: a request leaves the admission queue only when a worker is free: no
\* submitted task waits inside the pool while all max_concurrent_requests workers
\* are busy.
NoQueuingInsidePool ==
  ~(work_queue # <<>> /\ Cardinality(Running) >= concurrency)

\* C20: a task that has been handed to the pool is executed, whatever the earlier
\* tasks did: a worker that ran a failed request is free again.
SlotReleasedAfterFailure ==
  \A r \in Requests : (taskPc[r] = "pending") ~> (taskPc[r] = "calling")

\* a pool of one worker runs the third request after the first two have failed
ExecutedAfterFailures ==
  /\ concurrency = 1
  /\ taskPc[1] = "failed"
  /\ taskPc[2] = "failed"
  /\ taskPc[3] = "calling"

\* C21: once stop_worker has been called, stop_event is never cleared; once
\* stop_worker has returned it stays returned, and no request, queued before the
\* call or submitted after it, is handed to the pool or to the wrapped LLM: no
\* task is submitted, started or advanced any more.
ShutdownIsFinal ==
  [][/\ stop_event => stop_event'
     /\ stopPc = "returned"
          => /\ stopPc' = "returned"
             /\ taskPc' = taskPc
             /\ work_queue' = work_queue]_vars

\* stop_worker has returned; a request submitted after stop_event was set is in
\* the queue and its caller waits
SubmittedAfterShutdown ==
  /\ stopPc = "returned"
  /\ \E i \in 1..Len(queue) :
       /\ queue[i][2] \notin stop_queued
       /\ callerPc[queue[i][2]] = "waiting"

\* C22: stop_worker does not hang: once called it returns, even when a provider
\* call in flight never terminates.
StopWorkerReturns == (stopPc = "join") ~> (stopPc = "returned")

\* C23: every mutation of the rate window (popleft, append: the steps of the
\* dispatcher thread that change timestamps) happens while the dispatcher thread
\* holds self.lock.
WindowMutatedUnderLock ==
  [][(loopPc' # loopPc /\ timestamps' # timestamps) => DispatcherThread \in lock]_vars

\* C24: the rate window is ordered, oldest timestamp at the left end (ages do not
\* increase from left to right), so that the eviction loop, which stops at the first
\* timestamp that is not older than 60 seconds, leaves no stale timestamp behind.
TimestampsOrdered ==
  /\ \A i, j \in 1..Len(timestamps) : i < j => timestamps[i] >= timestamps[j]
  /\ \A i \in 1..Len(EvictStale(timestamps)) : EvictStale(timestamps)[i] <= Window

\* the window holds a timestamp older than 60 seconds left of a younger one
StaleLeftOfFresh ==
  /\ Len(timestamps) >= 2
  /\ timestamps[1] = Stale
  /\ timestamps[2] \in 1..Window

\* C25: the dispatcher thread never blocks in queue.get(): whenever it is about to
\* call get(), after its test `not self.queue.empty()`, the queue holds an item.
GetNeverBlocks == loopPc = "get" => queue # <<>>

\* the dispatcher is about to call get() while a caller thread is inside the lock,
\* about to put
GetWhileCallerPuts == loopPc = "get" /\ lock # {}

\* C26: no task is submitted to the executor after the executor has been shut down:
\* the dispatcher thread never ends in the RuntimeError of such a submit.
NoSubmitAfterShutdown == loopPc # "crashed"

\* stop_worker has set stop_event and waits in join() while the dispatcher thread,
\* past its stop_event test, is about to admit a request
AdmittingWhileJoining ==
  /\ stopPc = "join"
  /\ loopPc = "admit"
  /\ HasCapacity(queue, timestamps)

\* C27: against a cost-tracking LLM, when get_completion has returned a request's
\* text, that request's task is past update_token_counters and the wrapper's totals
\* hold at least the usage of one call.
UsageUpdatedBeforeUnblock ==
  \A r \in Requests :
    (child_has_cost /\ callerPc[r] = "returned")
      => /\ taskPc[r] = "done"
         /\ token_counter_input >= UsageDelta[1]
         /\ token_counter_output >= UsageDelta[2]

\* a caller has its text while the task of another request is still accounting
ReturnedWhileOtherAccounts ==
  /\ child_has_cost
  /\ \E r1, r2 \in Requests : callerPc[r1] = "returned" /\ taskPc[r2] \in AccountingPcs

MaxPerMinute == 2           \* largest max_per_minute tried
AnthropicMaxRetries == 3    \* get_completion(self, prompt, max_retries=3)

\* time.sleep(time_to_wait): the list is at the limit and its first entry is
\* less than a minute old
TimeToWait(ts) ==
  IF Len(ts) >= max_per_minute /\ ts[1] < Window THEN Window - ts[1] ELSE 0

\* the list comprehension: it compares with the current_time read before the sleep
PruneOutside(ts) ==
  IF Len(ts) >= max_per_minute THEN SelectSeq(ts, LAMBDA a : a < Window) ELSE ts

\* _check_rate_limit as a whole: wait, prune, then append time.time()
CheckRateLimit(ts) == Append(AgeSeq(PruneOutside(ts), TimeToWait(ts)), 0)

\* the calls started less than Window seconds ago
StartedWithinWindow(s) == SelectSeq(s, LAMBDA a : a < Window)

AnthropicUnchanged ==
  UNCHANGED <<configVars, identVars, lockVars, adapterVars, max_per_minute, callerVars,
              usageVars, stopVars, stop_queued, timestamps, queue, work_queue, loopPc,
              event, result_holder, taskPc, admissions>>

\* get_completion is called: the retry loop starts
AnthropicGetCompletion ==
  /\ anthropicPc = "idle"
  /\ anthropicPc' = "loop"
  /\ anthropic_i' = 0
  /\ UNCHANGED <<call_timestamps, api_calls>>
  /\ AnthropicUnchanged

\* one iteration of the retry loop: _check_rate_limit, then client.messages.create
\* is started; it returns a response (the call returns its text) or raises an
\* ordinary exception (the loop goes on)
AnthropicAttempt ==
  /\ anthropicPc = "loop"
  /\ anthropic_i < AnthropicMaxRetries
  /\ call_timestamps' = CheckRateLimit(call_timestamps)
  /\ api_calls' = Append(StartedWithinWindow(AgeSeq(api_calls, TimeToWait(call_timestamps))), 0)
  /\ \E responded \in BOOLEAN :
       IF responded
         THEN anthropicPc' = "idle" /\ anthropic_i' = anthropic_i
         ELSE anthropicPc' = "loop" /\ anthropic_i' = anthropic_i + 1
  /\ AnthropicUnchanged

\* every attempt failed: raise Exception("Failed to get response ...")
AnthropicRaise ==
  /\ anthropicPc = "loop"
  /\ anthropic_i = AnthropicMaxRetries
  /\ anthropicPc' = "idle"
  /\ UNCHANGED <<call_timestamps, api_calls, anthropic_i>>
  /\ AnthropicUnchanged

\* time passes: during an API call, in the sleep after a failure, between two calls
AnthropicTick ==
  \E d \in TickSteps :
    /\ call_timestamps' = AgeSeq(call_timestamps, d)
    /\ api_calls' = StartedWithinWindow(AgeSeq(api_calls, d))
    /\ UNCHANGED <<anthropicPc, anthropic_i>>
    /\ AnthropicUnchanged

InitAnthropic ==
  /\ requests_per_minute = 1
  /\ concurrency = 1
  /\ child_has_cost = FALSE
  /\ audit = FALSE
  /\ llm = <<"AnthropicClient">>
  /\ max_per_minute \in 1..MaxPerMinute
  /\ client = "OpenAIClient"
  /\ max_retries = 0
  /\ Constructed

NextAnthropic ==
  \/ AnthropicGetCompletion
  \/ AnthropicAttempt
  \/ AnthropicRaise
  \/ AnthropicTick

SpecAnthropic == InitAnthropic /\ [][NextAnthropic]_vars

\* C29: AnthropicClient's limiter keeps the number of API calls started in any
\* 60-second window at or below max_per_minute, when no RateLimitError occurs.
AnthropicRateRespected == Len(api_calls) <= max_per_minute

\* ---------------------------------------------------------------------------
\* The adapters' retry loop: OpenAIClient, LMStudioClient and OllamaClientHTTP
\* ---------------------------------------------------------------------------

MaxRetries == 3    \* largest max_retries tried

AdapterClients == {"OpenAIClient", "LMStudioClient", "OllamaClientHTTP"}

\* the adapters that call self.update_token_counters(response.usage...)
CountsUsage(c) == c \in {"OpenAIClient", "LMStudioClient"}

\* what one iteration can meet: "raises" (the request raises, or the status is not
\* 200), "no_usage" (a response whose usage is None), "no_text" (a response with
\* usage but without choices[0] / without the 'response' key), "text"
AttemptOutcomes(c) ==
  IF CountsUsage(c) THEN {"raises", "no_usage", "no_text", "text"}
                    ELSE {"raises", "no_text", "text"}

\* update_token_counters runs before the text is extracted
UsageRead(c, o) == CountsUsage(c) /\ o \in {"no_text", "text"}

\* the iteration reaches its return statement
Completes(o) == o = "text"

\* a loop that runs once more than range(self.max_retries)
MayAttemptInclusive(n) == n <= max_retries

\* for i in range(self.max_retries)
MayAttempt(n) == n < max_retries

\* the text of the n-th attempt's response
AdapterText(n) == <<"text", n>>

AdapterUnchanged ==
  UNCHANGED <<configVars, identVars, lockVars, anthropicVars, client, max_retries,
              callerVars, usageVars, stopVars, stop_queued, timestamps, queue,
              work_queue, loopPc, event, result_holder, taskPc, admissions>>

\* get_completion is called: the retry loop starts
AdapterGetCompletion ==
  /\ adapterPc = "idle"
  /\ adapterPc' = "loop"
  /\ UNCHANGED <<responses, updates, adapter_result>>
  /\ AdapterUnchanged

\* one iteration of the retry loop
AdapterAttempt ==
  /\ adapterPc = "loop"
  /\ MayAttempt(Len(responses))
  /\ \E o \in AttemptOutcomes(client) :
       /\ responses' = Append(responses, o)
       /\ updates' = IF UsageRead(client, o) THEN updates + 1 ELSE updates
       /\ IF Completes(o)
            THEN /\ adapterPc' = "returned"
                 /\ adapter_result' = AdapterText(Len(responses) + 1)
            ELSE UNCHANGED <<adapterPc, adapter_result>>
  /\ AdapterUnchanged

\* the loop ran out: raise Exception("Failed to get response ...")
AdapterRaise ==
  /\ adapterPc = "loop"
  /\ ~MayAttempt(Len(responses))
  /\ adapterPc' = "raised"
  /\ UNCHANGED <<responses, updates, adapter_result>>
  /\ AdapterUnchanged

InitAdapter ==
  /\ requests_per_minute = 1
  /\ concurrency = 1
  /\ child_has_cost = FALSE
  /\ audit = FALSE
  /\ WrapsDummy
  /\ max_per_minute = 1
  /\ client \in AdapterClients
  /\ max_retries \in 0..MaxRetries
  /\ Constructed

NextAdapter ==
  \/ AdapterGetCompletion
  \/ AdapterAttempt
  \/ AdapterRaise

SpecAdapter == InitAdapter /\ [][NextAdapter]_vars

AttemptsFailed == \A i \in DOMAIN responses : ~Completes(responses[i])

\* at most max_retries attempts; the call returns the text of the first attempt
\* that completes, with no attempt after it; it raises exactly when max_retries
\* attempts were made and none completed
RetryLoopOutcome ==
  /\ Len(responses) <= max_retries
  /\ adapterPc = "returned" =>
       /\ responses # <<>>
       /\ Completes(responses[Len(responses)])
       /\ \A i \in 1..(Len(responses) - 1) : ~Completes(responses[i])
       /\ adapter_result = AdapterText(Len(responses))
  /\ adapterPc = "raised" => (Len(responses) = max_retries /\ AttemptsFailed)
  /\ (adapterPc \in {"returned", "raised"} /\ Len(responses) = max_retries /\ AttemptsFailed)
       => adapterPc = "raised"

\* C30 as stated: at most max_retries attempts, the text of the first successful
\* attempt is returned without further attempts, an exception is raised if and only
\* if all max_retries attempts failed, and the token counters are updated exactly
\* once per successful call and not at all for a failed call.
RetryLoopCountsOncePerSuccess ==
  /\ RetryLoopOutcome
  /\ adapterPc = "returned" => updates = 1
  /\ adapterPc = "raised" => updates = 0

\* the responses of this call whose usage was read
UsageResponses == {i \in DOMAIN responses : responses[i] \in {"no_text", "text"}}

\* C30, amended: the attempts and the outcome are as stated; the token counters are
\* updated once per response whose usage the adapter reads, whether or not that
\* attempt then completes (OpenAIClient, LMStudioClient: at least once and at most
\* once per attempt for a call that returns), and never by OllamaClientHTTP.
RetryLoopCountsPerResponse ==
  /\ RetryLoopOutcome
  /\ CountsUsage(client) => updates = Cardinality(UsageResponses)
  /\ (CountsUsage(client) /\ adapterPc = "returned") =>
       (updates >= 1 /\ updates <= Len(responses))
  /\ ~CountsUsage(client) => updates = 0

\* an OpenAIClient call returned at its third attempt, after an attempt that raised
\* and a response without choices: the counters were updated twice
ReturnedAfterCountedFailure ==
  /\ client = "OpenAIClient"
  /\ adapterPc = "returned"
  /\ responses = <<"raises", "no_text", "text">>
  /\ adapter_result = AdapterText(3)
  /\ updates = 2


====
